---- MODULE Spec2Model ----
(***************************************************************************)
(* Model of scipy/sparse/sparsetools/sparsetools.h: the CSR/CSC/COO        *)
(* conversion kernels and the accumulator based kernels (matrix product,   *)
(* elementwise binary operation, duplicate summation).                     *)
(*                                                                         *)
(* C arrays are sequences; element i of the source (0-based) is element    *)
(* i+1 of the sequence, read with At and written with Set.  A compressed   *)
(* matrix is a record [p, j, x] (pointer, index and value arrays), a       *)
(* coordinate matrix a record [i, j, x].  The value type T is modelled by  *)
(* the integers, the index type I by the integers.                         *)
(***************************************************************************)
EXTENDS Integers, Sequences, FiniteSets, TLC

VARIABLES
    setup,   \* what the calling layer has prepared: the operands' formats
    op,      \* the kernel called last, "none" before the first call
    status,  \* how that call ended: "returned", or "crashed"
    n_row,   \* number of rows of A (and of the result)
    n_mid,   \* for a product: columns of A = rows of B; 0 otherwise
    n_col,   \* number of columns of the result
    A, B,    \* the operands
    C, D,    \* the outputs
    work     \* the locals of the call, where it is followed row by row

vars == <<setup, op, status, n_row, n_mid, n_col, A, B, C, D, work>>

(* ---------------------------- bounds ----------------------------------- *)
MaxDim  == 2    \* every dimension ranges over 1..MaxDim
MaxNnz  == 2    \* stored entries of each operand of a two-operand kernel
MaxNnz1 == 3    \* stored entries of the operand of a one-operand kernel

Values   == {-1, 1}        \* values of the operands of two-operand kernels
Values1  == {-1, 1, 2}     \* values of the operand of one-operand kernels

(* ---------------------------- arrays ----------------------------------- *)
At(s, i)     == s[i + 1]
Set(s, i, v) == [s EXCEPT ![i + 1] = v]
Fill(n, v)   == [i \in 1..n |-> v]

NoMatrix == [p |-> <<>>, j |-> <<>>, x |-> <<>>]

\* no call in progress
NoWork == <<>>

\* T is an integer type here, and line 568 divides by whatever B_row holds:
\* a division by zero is undefined, it traps or yields some value
Traps == [trap |-> TRUE, value |-> 0]
DivideByZero == {Traps} \cup {[trap |-> FALSE, value |-> v] : v \in {-1, 0, 1}}

(* ------------------- csr_matmat_pass1 (lines 236-277) ------------------ *)
RECURSIVE pass1_kk(_, _, _, _)
pass1_kk(acc, kk, kk_end, Bj) ==
    IF kk < kk_end
    THEN LET k == At(Bj, kk)
         IN  pass1_kk(IF At(acc.next, k) = -1
                      THEN [next   |-> Set(acc.next, k, acc.head),
                            head   |-> k,
                            length |-> acc.length + 1]
                      ELSE acc,
                      kk + 1, kk_end, Bj)
    ELSE acc

RECURSIVE pass1_jj(_, _, _, _, _, _)
pass1_jj(acc, jj, jj_end, Aj, Bp, Bj) ==
    IF jj < jj_end
    THEN LET j == At(Aj, jj)
         IN  pass1_jj(pass1_kk(acc, At(Bp, j), At(Bp, j + 1), Bj),
                      jj + 1, jj_end, Aj, Bp, Bj)
    ELSE acc

\* pass1_clear without next[temp] = -1
RECURSIVE pass1_clear_noreset(_, _)
pass1_clear_noreset(acc, jj) ==
    IF jj < acc.length
    THEN pass1_clear_noreset([acc EXCEPT !.head = At(acc.next, acc.head)],
                             jj + 1)
    ELSE acc

RECURSIVE pass1_clear(_, _)
pass1_clear(acc, jj) ==
    IF jj < acc.length
    THEN pass1_clear([acc EXCEPT !.head = At(acc.next, acc.head),
                                 !.next = Set(@, acc.head, -1)],
                     jj + 1)
    ELSE acc

\* pass1_row with Cp[i+1] = length in place of Cp[i+1] = Cp[i] + length
pass1_row_nototal(i, st, Am, Bm) ==
    LET filled  == pass1_jj([next |-> st.next, head |-> -2, length |-> 0],
                            At(Am.p, i), At(Am.p, i + 1), Am.j, Bm.p, Bm.j)
        drained == pass1_clear(filled, 0)
    IN  [filled  |-> filled,
         drained |-> drained,
         st      |-> [next |-> drained.next,
                      p    |-> Set(st.p, i + 1, filled.length)]]

\* one iteration of the loop of lines 249-276, for row i; st = [next, p];
\* the list after the loops of lines 255-267, after the loop of lines
\* 269-273, and the state the next iteration starts from
pass1_row(i, st, Am, Bm) ==
    LET filled  == pass1_jj([next |-> st.next, head |-> -2, length |-> 0],
                            At(Am.p, i), At(Am.p, i + 1), Am.j, Bm.p, Bm.j)
        drained == pass1_clear(filled, 0)
    IN  [filled  |-> filled,
         drained |-> drained,
         st      |-> [next |-> drained.next,
                      p    |-> Set(st.p, i + 1,
                                   At(st.p, i) + filled.length)]]

\* the loop of lines 249-276
RECURSIVE pass1_rows(_, _, _, _, _)
pass1_rows(i, nrow, st, Am, Bm) ==
    IF i < nrow
    THEN pass1_rows(i + 1, nrow, pass1_row(i, st, Am, Bm).st, Am, Bm)
    ELSE st

\* lines 245-247: the state of csr_matmat_pass1 before its first row
pass1_begin(nrow, ncol) ==
    [next |-> Fill(ncol, -1), p |-> Set(Fill(nrow + 1, 0), 0, 0)]

csr_matmat_pass1(nrow, ncol, Ap, Aj, Bp, Bj) ==
    pass1_rows(0, nrow, pass1_begin(nrow, ncol),
               [p |-> Ap, j |-> Aj], [p |-> Bp, j |-> Bj]).p

(* --------------------- csrmucsr (lines 386-443) ------------------------ *)
\* mu_kk with sums[k] = ... in place of sums[k] += ...
RECURSIVE mu_kk_assign(_, _, _, _, _, _)
mu_kk_assign(acc, kk, kk_end, a, Bj, Bx) ==
    IF kk < kk_end
    THEN LET k    == At(Bj, kk)
             sums == Set(acc.sums, k, a * At(Bx, kk))
         IN  mu_kk_assign(IF At(acc.next, k) = -1
                          THEN [next   |-> Set(acc.next, k, acc.head),
                                sums   |-> sums,
                                head   |-> k,
                                length |-> acc.length + 1]
                          ELSE [acc EXCEPT !.sums = sums],
                          kk + 1, kk_end, a, Bj, Bx)
    ELSE acc

RECURSIVE mu_kk(_, _, _, _, _, _)
mu_kk(acc, kk, kk_end, a, Bj, Bx) ==
    IF kk < kk_end
    THEN LET k    == At(Bj, kk)
             sums == Set(acc.sums, k, At(acc.sums, k) + a * At(Bx, kk))
         IN  mu_kk(IF At(acc.next, k) = -1
                   THEN [next   |-> Set(acc.next, k, acc.head),
                         sums   |-> sums,
                         head   |-> k,
                         length |-> acc.length + 1]
                   ELSE [acc EXCEPT !.sums = sums],
                   kk + 1, kk_end, a, Bj, Bx)
    ELSE acc

\* mu_jj starting the scan of row j of B one entry late
RECURSIVE mu_jj_skipfirst(_, _, _, _, _)
mu_jj_skipfirst(acc, jj, jj_end, Am, Bm) ==
    IF jj < jj_end
    THEN LET j == At(Am.j, jj)
         IN  mu_jj_skipfirst(mu_kk(acc, At(Bm.p, j) + 1, At(Bm.p, j + 1),
                                   At(Am.x, jj), Bm.j, Bm.x),
                             jj + 1, jj_end, Am, Bm)
    ELSE acc

RECURSIVE mu_jj(_, _, _, _, _)
mu_jj(acc, jj, jj_end, Am, Bm) ==
    IF jj < jj_end
    THEN LET j == At(Am.j, jj)
         IN  mu_jj(mu_kk(acc, At(Bm.p, j), At(Bm.p, j + 1), At(Am.x, jj),
                         Bm.j, Bm.x),
                   jj + 1, jj_end, Am, Bm)
    ELSE acc

\* mu_drain without sums[temp] = 0
RECURSIVE mu_drain_keepsums(_, _)
mu_drain_keepsums(st, jj) ==
    IF jj < st.length
    THEN LET head == st.head
             keep == At(st.sums, head) # 0
         IN  mu_drain_keepsums(
                 [next   |-> Set(st.next, head, -1),
                  sums   |-> st.sums,
                  head   |-> At(st.next, head),
                  length |-> st.length,
                  Cj     |-> IF keep THEN Append(st.Cj, head) ELSE st.Cj,
                  Cx     |-> IF keep THEN Append(st.Cx, At(st.sums, head))
                                     ELSE st.Cx],
                 jj + 1)
    ELSE st

\* the loop of lines 428-439; st = [next, sums, head, length, Cj, Cx]
RECURSIVE mu_drain(_, _)
mu_drain(st, jj) ==
    IF jj < st.length
    THEN LET head == st.head
             keep == At(st.sums, head) # 0
         IN  mu_drain([next   |-> Set(st.next, head, -1),
                       sums   |-> Set(st.sums, head, 0),
                       head   |-> At(st.next, head),
                       length |-> st.length,
                       Cj     |-> IF keep THEN Append(st.Cj, head) ELSE st.Cj,
                       Cx     |-> IF keep THEN Append(st.Cx, At(st.sums, head))
                                          ELSE st.Cx],
                      jj + 1)
    ELSE st

\* one iteration of the loop of lines 404-442, for row i;
\* st = [next, sums, p, j, x]
mu_row(i, st, Am, Bm) ==
    LET filled  == mu_jj([next |-> st.next, sums |-> st.sums,
                          head |-> -2, length |-> 0],
                         At(Am.p, i), At(Am.p, i + 1), Am, Bm)
        drained == mu_drain([next |-> filled.next, sums |-> filled.sums,
                             head |-> filled.head,
                             length |-> filled.length,
                             Cj |-> st.j, Cx |-> st.x], 0)
    IN  [filled  |-> filled,
         drained |-> drained,
         st      |-> [next |-> drained.next, sums |-> drained.sums,
                      p |-> Set(st.p, i + 1, Len(drained.Cx)),
                      j |-> drained.Cj, x |-> drained.Cx]]

\* the loop of lines 404-442
RECURSIVE mu_rows(_, _, _, _, _)
mu_rows(i, nrow, st, Am, Bm) ==
    IF i < nrow
    THEN mu_rows(i + 1, nrow, mu_row(i, st, Am, Bm).st, Am, Bm)
    ELSE st

\* lines 399-402: the state of csrmucsr before its first row
mu_begin(nrow, ncol) ==
    [next |-> Fill(ncol, -1), sums |-> Fill(ncol, 0),
     p |-> Fill(nrow + 1, 0), j |-> <<>>, x |-> <<>>]

csrmucsr(nrow, ncol, Am, Bm) ==
    LET st == mu_rows(0, nrow, mu_begin(nrow, ncol), Am, Bm)
    IN  [p |-> st.p, j |-> st.j, x |-> st.x]

(* ------------------- csr_matmat_pass2 (lines 279-341) ------------------ *)
RECURSIVE pass2_kk(_, _, _, _, _, _)
pass2_kk(acc, kk, kk_end, v, Bj, Bx) ==
    IF kk < kk_end
    THEN LET k    == At(Bj, kk)
             sums == Set(acc.sums, k, At(acc.sums, k) + v * At(Bx, kk))
         IN  pass2_kk(IF At(acc.next, k) = -1
                      THEN [next   |-> Set(acc.next, k, acc.head),
                            sums   |-> sums,
                            head   |-> k,
                            length |-> acc.length + 1]
                      ELSE [acc EXCEPT !.sums = sums],
                      kk + 1, kk_end, v, Bj, Bx)
    ELSE acc

RECURSIVE pass2_jj(_, _, _, _, _)
pass2_jj(acc, jj, jj_end, Am, Bm) ==
    IF jj < jj_end
    THEN LET j == At(Am.j, jj)
             v == At(Am.x, jj)
         IN  pass2_jj(pass2_kk(acc, At(Bm.p, j), At(Bm.p, j + 1), v,
                               Bm.j, Bm.x),
                      jj + 1, jj_end, Am, Bm)
    ELSE acc

\* the loop of lines 324-337; st = [next, sums, head, length, Cj, Cx, nnz]
\* pass2_drain without the test sums[head] != 0
RECURSIVE pass2_drain_keepzero(_, _)
pass2_drain_keepzero(st, jj) ==
    IF jj < st.length
    THEN LET head == st.head
         IN  pass2_drain_keepzero(
                 [next   |-> Set(st.next, head, -1),
                  sums   |-> Set(st.sums, head, 0),
                  head   |-> At(st.next, head),
                  length |-> st.length,
                  Cj     |-> Set(st.Cj, st.nnz, head),
                  Cx     |-> Set(st.Cx, st.nnz, At(st.sums, head)),
                  nnz    |-> st.nnz + 1],
                 jj + 1)
    ELSE st

RECURSIVE pass2_drain(_, _)
pass2_drain(st, jj) ==
    IF jj < st.length
    THEN LET head == st.head
             keep == At(st.sums, head) # 0
         IN  pass2_drain([next   |-> Set(st.next, head, -1),
                          sums   |-> Set(st.sums, head, 0),
                          head   |-> At(st.next, head),
                          length |-> st.length,
                          Cj     |-> IF keep THEN Set(st.Cj, st.nnz, head)
                                             ELSE st.Cj,
                          Cx     |-> IF keep
                                     THEN Set(st.Cx, st.nnz, At(st.sums, head))
                                     ELSE st.Cx,
                          nnz    |-> IF keep THEN st.nnz + 1 ELSE st.nnz],
                         jj + 1)
    ELSE st

\* one iteration of the loop of lines 299-340, for row i;
\* st = [next, sums, p, j, x, nnz]
pass2_row(i, st, Am, Bm) ==
    LET filled  == pass2_jj([next |-> st.next, sums |-> st.sums,
                             head |-> -2, length |-> 0],
                            At(Am.p, i), At(Am.p, i + 1), Am, Bm)
        drained == pass2_drain([next |-> filled.next,
                                sums |-> filled.sums,
                                head |-> filled.head,
                                length |-> filled.length,
                                Cj |-> st.j, Cx |-> st.x,
                                nnz |-> st.nnz], 0)
    IN  [filled  |-> filled,
         drained |-> drained,
         st      |-> [next |-> drained.next, sums |-> drained.sums,
                      p |-> Set(st.p, i + 1, drained.nnz),
                      j |-> drained.Cj, x |-> drained.Cx,
                      nnz |-> drained.nnz]]

\* the loop of lines 299-340
RECURSIVE pass2_rows(_, _, _, _, _)
pass2_rows(i, nrow, st, Am, Bm) ==
    IF i < nrow
    THEN pass2_rows(i + 1, nrow, pass2_row(i, st, Am, Bm).st, Am, Bm)
    ELSE st

\* lines 292-297: the state of csr_matmat_pass2 before its first row; Cm
\* holds the caller's preallocated Cp, Cj and Cx
pass2_begin(nrow, ncol, Cm) ==
    [next |-> Fill(ncol, -1), sums |-> Fill(ncol, 0),
     p |-> Set(Cm.p, 0, 0), j |-> Cm.j, x |-> Cm.x, nnz |-> 0]

csr_matmat_pass2(nrow, ncol, Am, Bm, Cm) ==
    LET st == pass2_rows(0, nrow, pass2_begin(nrow, ncol, Cm), Am, Bm)
    IN  [p |-> st.p, j |-> st.j, x |-> st.x]

(* -------------------- csr_binop_csr (lines 477-550) -------------------- *)
\* the functors handed to csr_binop_csr at lines 559, 578 and 587
std_plus(a, b)       == a + b
std_minus(a, b)      == a - b
std_multiplies(a, b) == a * b

\* T's operator / of line 568 on integers: the quotient truncated towards
\* zero, and for a zero divisor whatever the build yields
std_divides(a, b, divzero) ==
    IF b = 0
    THEN divzero.value
    ELSE LET q == (IF a < 0 THEN -a ELSE a) \div (IF b < 0 THEN -b ELSE b)
         IN  IF (a < 0) = (b < 0) THEN q ELSE -q

\* the functor objects constructed at lines 559, 568, 578 and 587; divzero
\* is what a division by zero does in the call the functor is handed to
Functor(name) == [name |-> name]
Divides(divzero) == [name |-> "divides", divzero |-> divzero]

\* op(a, b) of line 533
call_op(bin_op, a, b) ==
    CASE bin_op.name = "plus"       -> std_plus(a, b)
      [] bin_op.name = "minus"      -> std_minus(a, b)
      [] bin_op.name = "multiplies" -> std_multiplies(a, b)
      [] bin_op.name = "divides"    -> std_divides(a, b, bin_op.divzero)

\* the call of line 533 ends the process: a division by zero that traps
op_traps(bin_op, a, b) ==
    bin_op.name = "divides" /\ b = 0 /\ bin_op.divzero.trap

\* lines 504-514: add a row of A to A_row
RECURSIVE binop_A(_, _, _, _, _)
binop_A(acc, jj, i_end, Aj, Ax) ==
    IF jj < i_end
    THEN LET j     == At(Aj, jj)
             A_row == Set(acc.A_row, j, At(acc.A_row, j) + At(Ax, jj))
         IN  binop_A(IF At(acc.next, j) = -1
                     THEN [acc EXCEPT !.A_row = A_row,
                                      !.next = Set(@, j, acc.head),
                                      !.head = j,
                                      !.length = @ + 1]
                     ELSE [acc EXCEPT !.A_row = A_row],
                     jj + 1, i_end, Aj, Ax)
    ELSE acc

\* lines 517-529: add a row of B to B_row
\* binop_B with B_row[j] = ... in place of B_row[j] += ...
RECURSIVE binop_B_assign(_, _, _, _, _)
binop_B_assign(acc, jj, i_end, Bj, Bx) ==
    IF jj < i_end
    THEN LET j     == At(Bj, jj)
             B_row == Set(acc.B_row, j, At(Bx, jj))
         IN  binop_B_assign(IF At(acc.next, j) = -1
                            THEN [acc EXCEPT !.B_row = B_row,
                                             !.next = Set(@, j, acc.head),
                                             !.head = j,
                                             !.length = @ + 1]
                            ELSE [acc EXCEPT !.B_row = B_row],
                            jj + 1, i_end, Bj, Bx)
    ELSE acc

RECURSIVE binop_B(_, _, _, _, _)
binop_B(acc, jj, i_end, Bj, Bx) ==
    IF jj < i_end
    THEN LET j     == At(Bj, jj)
             B_row == Set(acc.B_row, j, At(acc.B_row, j) + At(Bx, jj))
         IN  binop_B(IF At(acc.next, j) = -1
                     THEN [acc EXCEPT !.B_row = B_row,
                                      !.next = Set(@, j, acc.head),
                                      !.head = j,
                                      !.length = @ + 1]
                     ELSE [acc EXCEPT !.B_row = B_row],
                     jj + 1, i_end, Bj, Bx)
    ELSE acc

\* binop_drain that passes over a column whose divisor is zero instead of
\* calling op on it
RECURSIVE binop_drain_skipzero(_, _, _)
binop_drain_skipzero(st, jj, bin_op) ==
    IF jj < st.length /\ ~st.trap
    THEN LET head   == st.head
             skip   == bin_op.name = "divides" /\ At(st.B_row, head) = 0
             result == IF skip THEN 0
                       ELSE call_op(bin_op, At(st.A_row, head),
                                    At(st.B_row, head))
         IN  binop_drain_skipzero(
                 [next   |-> Set(st.next, head, -1),
                  A_row  |-> Set(st.A_row, head, 0),
                  B_row  |-> Set(st.B_row, head, 0),
                  head   |-> At(st.next, head),
                  length |-> st.length,
                  Cj     |-> IF result # 0 THEN Append(st.Cj, head)
                                           ELSE st.Cj,
                  Cx     |-> IF result # 0 THEN Append(st.Cx, result)
                                           ELSE st.Cx,
                  trap   |-> FALSE],
                 jj + 1, bin_op)
    ELSE st

\* lines 532-546; st = [next, A_row, B_row, head, length, Cj, Cx, trap]
RECURSIVE binop_drain(_, _, _)
binop_drain(st, jj, bin_op) ==
    IF jj < st.length /\ ~st.trap
    THEN LET head   == st.head
             result == call_op(bin_op, At(st.A_row, head), At(st.B_row, head))
         IN  IF op_traps(bin_op, At(st.A_row, head), At(st.B_row, head))
             THEN [st EXCEPT !.trap = TRUE]
             ELSE binop_drain(
                      [next   |-> Set(st.next, head, -1),
                       A_row  |-> Set(st.A_row, head, 0),
                       B_row  |-> Set(st.B_row, head, 0),
                       head   |-> At(st.next, head),
                       length |-> st.length,
                       Cj     |-> IF result # 0 THEN Append(st.Cj, head)
                                                ELSE st.Cj,
                       Cx     |-> IF result # 0 THEN Append(st.Cx, result)
                                                ELSE st.Cx,
                       trap   |-> FALSE],
                      jj + 1, bin_op)
    ELSE st

\* binop_row with the row of B added to the list before the row of A
binop_row_Bfirst(i, st, Am, Bm, bin_op) ==
    LET b == binop_B([next |-> st.next, A_row |-> st.A_row,
                      B_row |-> st.B_row, head |-> -2, length |-> 0],
                     At(Bm.p, i), At(Bm.p, i + 1), Bm.j, Bm.x)
        a == binop_A(b, At(Am.p, i), At(Am.p, i + 1), Am.j, Am.x)
        d == binop_drain([next |-> a.next, A_row |-> a.A_row,
                          B_row |-> a.B_row, head |-> a.head,
                          length |-> a.length,
                          Cj |-> st.j, Cx |-> st.x, trap |-> FALSE],
                         0, bin_op)
    IN  [filled  |-> a,
         drained |-> d,
         st      |-> [next |-> d.next, A_row |-> d.A_row, B_row |-> d.B_row,
                      p |-> IF d.trap THEN st.p
                            ELSE Set(st.p, i + 1, Len(d.Cx)),
                      j |-> d.Cj, x |-> d.Cx, trap |-> d.trap]]

\* one iteration of the loop of lines 497-549, for row i;
\* st = [next, A_row, B_row, p, j, x, trap]
binop_row(i, st, Am, Bm, bin_op) ==
    LET a == binop_A([next |-> st.next, A_row |-> st.A_row,
                      B_row |-> st.B_row, head |-> -2, length |-> 0],
                     At(Am.p, i), At(Am.p, i + 1), Am.j, Am.x)
        b == binop_B(a, At(Bm.p, i), At(Bm.p, i + 1), Bm.j, Bm.x)
        d == binop_drain([next |-> b.next, A_row |-> b.A_row,
                          B_row |-> b.B_row, head |-> b.head,
                          length |-> b.length,
                          Cj |-> st.j, Cx |-> st.x, trap |-> FALSE],
                         0, bin_op)
    IN  [filled  |-> b,
         drained |-> d,
         st      |-> [next |-> d.next, A_row |-> d.A_row, B_row |-> d.B_row,
                      p |-> IF d.trap THEN st.p
                            ELSE Set(st.p, i + 1, Len(d.Cx)),
                      j |-> d.Cj, x |-> d.Cx, trap |-> d.trap]]

\* the loop of lines 497-549, left when a division traps
RECURSIVE binop_rows(_, _, _, _, _, _)
binop_rows(i, nrow, st, Am, Bm, bin_op) ==
    IF i < nrow /\ ~st.trap
    THEN binop_rows(i + 1, nrow, binop_row(i, st, Am, Bm, bin_op).st,
                    Am, Bm, bin_op)
    ELSE st

\* lines 490-494: the state of csr_binop_csr before its first row
binop_begin(nrow, ncol) ==
    [next |-> Fill(ncol, -1), A_row |-> Fill(ncol, 0),
     B_row |-> Fill(ncol, 0),
     p |-> Fill(nrow + 1, 0), j |-> <<>>, x |-> <<>>, trap |-> FALSE]

csr_binop_csr(nrow, ncol, Am, Bm, bin_op) ==
    LET st == binop_rows(0, nrow, binop_begin(nrow, ncol), Am, Bm, bin_op)
    IN  [p |-> st.p, j |-> st.j, x |-> st.x]

\* the call does not return: one of its divisions trapped
binop_trapped(nrow, ncol, Am, Bm, bin_op) ==
    binop_rows(0, nrow, binop_begin(nrow, ncol), Am, Bm, bin_op).trap

csr_elmul_csr(nrow, ncol, Am, Bm) ==
    csr_binop_csr(nrow, ncol, Am, Bm, Functor("multiplies"))

csr_eldiv_csr(nrow, ncol, Am, Bm, divzero) ==
    csr_binop_csr(nrow, ncol, Am, Bm, Divides(divzero))

csr_plus_csr(nrow, ncol, Am, Bm) ==
    csr_binop_csr(nrow, ncol, Am, Bm, Functor("plus"))

csr_minus_csr(nrow, ncol, Am, Bm) ==
    csr_binop_csr(nrow, ncol, Am, Bm, Functor("minus"))

(* ------------------ sum_csr_duplicates (lines 607-654) ----------------- *)
\* lines 628-637; acc = [next, sums, head]
RECURSIVE dup_fill(_, _, _, _, _)
dup_fill(acc, jj, row_end, Aj, Ax) ==
    IF jj < row_end
    THEN LET j    == At(Aj, jj)
             sums == Set(acc.sums, j, At(acc.sums, j) + At(Ax, jj))
         IN  dup_fill(IF At(acc.next, j) = -1
                      THEN [next |-> Set(acc.next, j, acc.head),
                            sums |-> sums,
                            head |-> j]
                      ELSE [acc EXCEPT !.sums = sums],
                      jj + 1, row_end, Aj, Ax)
    ELSE acc

\* lines 639-651; st = [next, sums, head, j, x, nnz]
RECURSIVE dup_drain(_)
dup_drain(st) ==
    IF st.head # -2
    THEN LET curr == st.head
             keep == At(st.sums, curr) # 0
         IN  dup_drain([next |-> Set(st.next, curr, -1),
                        sums |-> Set(st.sums, curr, 0),
                        head |-> At(st.next, curr),
                        j    |-> IF keep THEN Set(st.j, st.nnz, curr)
                                         ELSE st.j,
                        x    |-> IF keep
                                 THEN Set(st.x, st.nnz, At(st.sums, curr))
                                 ELSE st.x,
                        nnz  |-> IF keep THEN st.nnz + 1 ELSE st.nnz])
    ELSE st

\* dup_row with row_start = Ap[i] in place of row_start = row_end
dup_row_reread(i, st) ==
    LET row_start == At(st.p, i)
        row_end   == At(st.p, i + 1)
        filled    == dup_fill([next |-> st.next, sums |-> st.sums,
                               head |-> -2],
                              row_start, row_end, st.j, st.x)
        drained   == dup_drain([next |-> filled.next, sums |-> filled.sums,
                                head |-> filled.head,
                                j |-> st.j, x |-> st.x, nnz |-> st.nnz])
    IN  [filled  |-> filled,
         drained |-> drained,
         st      |-> [next |-> drained.next, sums |-> drained.sums,
                      p |-> Set(st.p, i + 1, drained.nnz),
                      j |-> drained.j, x |-> drained.x,
                      nnz |-> drained.nnz,
                      row_start |-> row_start, row_end |-> row_end]]

\* one iteration of the loop of lines 622-653, for row i;
\* st = [next, sums, p, j, x, nnz, row_start, row_end]
dup_row(i, st) ==
    LET row_start == st.row_end
        row_end   == At(st.p, i + 1)
        filled    == dup_fill([next |-> st.next, sums |-> st.sums,
                               head |-> -2],
                              row_start, row_end, st.j, st.x)
        drained   == dup_drain([next |-> filled.next, sums |-> filled.sums,
                                head |-> filled.head,
                                j |-> st.j, x |-> st.x, nnz |-> st.nnz])
    IN  [filled  |-> filled,
         drained |-> drained,
         st      |-> [next |-> drained.next, sums |-> drained.sums,
                      p |-> Set(st.p, i + 1, drained.nnz),
                      j |-> drained.j, x |-> drained.x,
                      nnz |-> drained.nnz,
                      row_start |-> row_start, row_end |-> row_end]]

\* the loop of lines 622-653
RECURSIVE dup_rows(_, _, _)
dup_rows(i, nrow, st) ==
    IF i < nrow
    THEN dup_rows(i + 1, nrow, dup_row(i, st).st)
    ELSE st

\* lines 614-620: the state of sum_csr_duplicates before its first row
dup_begin(ncol, Am) ==
    [next |-> Fill(ncol, -1), sums |-> Fill(ncol, 0),
     p |-> Am.p, j |-> Am.j, x |-> Am.x,
     nnz |-> 0, row_start |-> 0, row_end |-> 0]

sum_csr_duplicates(nrow, ncol, Am) ==
    LET st == dup_rows(0, nrow, dup_begin(ncol, Am))
    IN  [p |-> st.p, j |-> st.j, x |-> st.x]

(* ---------------------- coo_tocsr (lines 687-725) ---------------------- *)
\* std::copy(Bp, Bp + n, temp.begin()) of lines 159 and 710
std_copy(Bp, n) == [k \in 1..n |-> Bp[k]]

\* lines 701-703: temp[Ai[i]]++
RECURSIVE coo_count(_, _, _, _)
coo_count(temp, i, nnz, Ai) ==
    IF i < nnz
    THEN coo_count(Set(temp, At(Ai, i), At(temp, At(Ai, i)) + 1),
                   i + 1, nnz, Ai)
    ELSE temp

\* lines 705-708: Bp[i] = cumsum; cumsum += temp[i]
RECURSIVE coo_cumsum(_, _, _, _, _)
coo_cumsum(Bp, i, nrow, cumsum, temp) ==
    IF i < nrow
    THEN coo_cumsum(Set(Bp, i, cumsum), i + 1, nrow,
                    cumsum + At(temp, i), temp)
    ELSE Bp

\* lines 713-721; st = [temp, j, x]
\* coo_scatter without temp[row]++
RECURSIVE coo_scatter_nocursor(_, _, _, _)
coo_scatter_nocursor(st, i, nnz, Am) ==
    IF i < nnz
    THEN LET row == At(Am.i, i)
             n   == At(st.temp, row)
         IN  coo_scatter_nocursor([temp |-> st.temp,
                                   j    |-> Set(st.j, n, At(Am.j, i)),
                                   x    |-> Set(st.x, n, At(Am.x, i))],
                                  i + 1, nnz, Am)
    ELSE st

RECURSIVE coo_scatter(_, _, _, _)
coo_scatter(st, i, nnz, Am) ==
    IF i < nnz
    THEN LET row == At(Am.i, i)
             n   == At(st.temp, row)
         IN  coo_scatter([temp |-> Set(st.temp, row, n + 1),
                          j    |-> Set(st.j, n, At(Am.j, i)),
                          x    |-> Set(st.x, n, At(Am.x, i))],
                         i + 1, nnz, Am)
    ELSE st

\* Am = [i, j, x] is the coordinate input, Bm the caller's preallocated output
coo_tocsr(nrow, ncol, nnz, Am, Bm) ==
    LET temp == coo_count(Fill(nrow, 0), 0, nnz, Am.i)
        Bp   == Set(coo_cumsum(Bm.p, 0, nrow, 0, temp), nrow, nnz)
        st   == coo_scatter([temp |-> std_copy(Bp, nrow),
                             j |-> Bm.j, x |-> Bm.x], 0, nnz, Am)
    IN  sum_csr_duplicates(nrow, ncol, [p |-> Bp, j |-> st.j, x |-> st.x])

(* ---------------------- csr_tocsc (lines 134-175) ---------------------- *)
\* lines 149-151: temp[Aj[i]]++
RECURSIVE tocsc_count(_, _, _, _)
tocsc_count(temp, i, nnz, Aj) ==
    IF i < nnz
    THEN tocsc_count(Set(temp, At(Aj, i), At(temp, At(Aj, i)) + 1),
                     i + 1, nnz, Aj)
    ELSE temp

\* lines 154-157: Bp[i] = cumsum; cumsum += temp[i]
RECURSIVE tocsc_cumsum(_, _, _, _, _)
tocsc_cumsum(Bp, i, ncol, cumsum, temp) ==
    IF i < ncol
    THEN tocsc_cumsum(Set(Bp, i, cumsum), i + 1, ncol,
                      cumsum + At(temp, i), temp)
    ELSE Bp

\* lines 165-173; st = [temp, j, x]
\* tocsc_row without temp[col]++
RECURSIVE tocsc_row_nocursor(_, _, _, _, _)
tocsc_row_nocursor(st, j, row_end, i, Am) ==
    IF j < row_end
    THEN LET col == At(Am.j, j)
             k   == At(st.temp, col)
         IN  tocsc_row_nocursor([temp |-> st.temp,
                                 j    |-> Set(st.j, k, i),
                                 x    |-> Set(st.x, k, At(Am.x, j))],
                                j + 1, row_end, i, Am)
    ELSE st

RECURSIVE tocsc_row(_, _, _, _, _)
tocsc_row(st, j, row_end, i, Am) ==
    IF j < row_end
    THEN LET col == At(Am.j, j)
             k   == At(st.temp, col)
         IN  tocsc_row([temp |-> Set(st.temp, col, k + 1),
                        j    |-> Set(st.j, k, i),
                        x    |-> Set(st.x, k, At(Am.x, j))],
                       j + 1, row_end, i, Am)
    ELSE st

\* lines 162-174
\* tocsc_rows visiting the rows from the last to the first
RECURSIVE tocsc_rows_backwards(_, _, _, _)
tocsc_rows_backwards(st, i, nrow, Am) ==
    IF i < nrow
    THEN LET r == nrow - 1 - i
         IN  tocsc_rows_backwards(
                 tocsc_row(st, At(Am.p, r), At(Am.p, r + 1), r, Am),
                 i + 1, nrow, Am)
    ELSE st

RECURSIVE tocsc_rows(_, _, _, _)
tocsc_rows(st, i, nrow, Am) ==
    IF i < nrow
    THEN tocsc_rows(tocsc_row(st, At(Am.p, i), At(Am.p, i + 1), i, Am),
                    i + 1, nrow, Am)
    ELSE st

\* Bm holds the caller's preallocated Bp, Bi and Bx
csr_tocsc(nrow, ncol, Am, Bm) ==
    LET nnz  == At(Am.p, nrow)
        temp == tocsc_count(Fill(ncol, 0), 0, nnz, Am.j)
        Bp   == Set(tocsc_cumsum(Bm.p, 0, ncol, 0, temp), ncol, nnz)
        st   == tocsc_rows([temp |-> std_copy(Bp, ncol),
                            j |-> Bm.j, x |-> Bm.x], 0, nrow, Am)
    IN  [p |-> Bp, j |-> st.j, x |-> st.x]

(* ------------------- derived methods (lines 1063-1205) ----------------- *)
csc_tocsr(nrow, ncol, Am, Bm) == csr_tocsc(ncol, nrow, Am, Bm)

csc_matmat_pass1(nrow, ncol, Am, Bm) ==
    csr_matmat_pass1(ncol, nrow, Bm.p, Bm.j, Am.p, Am.j)

csc_matmat_pass2(nrow, ncol, Am, Bm, Cm) ==
    csr_matmat_pass2(ncol, nrow, Bm, Am, Cm)

cscmucsc(nrow, ncol, Am, Bm) == csrmucsr(ncol, nrow, Bm, Am)

(* ======================= inputs and operations ========================= *)
\* the buffers the calling layer allocates for a kernel's output
Prealloc(np, nx) == [p |-> Fill(np, 0), j |-> Fill(nx, 0), x |-> Fill(nx, 0)]

\* pointer arrays of `outer` slices holding k entries
PtrSet(outer, k) ==
    {p \in [1..outer + 1 -> 0..k] :
        /\ p[1] = 0
        /\ p[outer + 1] = k
        /\ \A i \in 1..outer : p[i] <= p[i + 1]}

\* compressed matrices with `outer` slices, inner indices below `inner`,
\* at most maxnnz stored entries in any order, duplicates allowed
Compressed(outer, inner, maxnnz, vals) ==
    UNION {{[p |-> p, j |-> j, x |-> x] :
               p \in PtrSet(outer, k),
               j \in [1..k -> 0..inner - 1],
               x \in [1..k -> vals]} : k \in 0..maxnnz}

Dims == 1..MaxDim

(* ---- the matrix product on row-major operands ---- *)
InitMul ==
    /\ setup = "csr_product"
    /\ work = NoWork
    /\ op = "none"
    /\ status = "none"
    /\ n_row \in Dims /\ n_mid \in Dims /\ n_col \in Dims
    /\ A \in Compressed(n_row, n_mid, MaxNnz, Values)
    /\ B \in Compressed(n_mid, n_col, MaxNnz, Values)
    /\ C = NoMatrix
    /\ D = NoMatrix

Csrmucsr ==
    /\ setup = "csr_product" /\ op = "none"
    /\ op' = "csrmucsr"
    /\ status' = "returned"
    /\ C' = csrmucsr(n_row, n_col, A, B)
    /\ UNCHANGED <<work, setup, n_row, n_mid, n_col, A, B, D>>

\* the symbolic pass sizes the output the caller then allocates
CsrMatmatPass1 ==
    /\ setup = "csr_product" /\ op = "none"
    /\ op' = "csr_matmat_pass1"
    /\ status' = "returned"
    /\ LET Cp == csr_matmat_pass1(n_row, n_col, A.p, A.j, B.p, B.j)
       IN  D' = [Prealloc(0, At(Cp, n_row)) EXCEPT !.p = Cp]
    /\ UNCHANGED <<work, setup, n_row, n_mid, n_col, A, B, C>>

CsrMatmatPass2 ==
    /\ setup = "csr_product" /\ op = "csr_matmat_pass1"
    /\ op' = "csr_matmat_pass2"
    /\ status' = "returned"
    /\ C' = csr_matmat_pass2(n_row, n_col, A, B, D)
    /\ UNCHANGED <<work, setup, n_row, n_mid, n_col, A, B, D>>

NextMul == Csrmucsr \/ CsrMatmatPass1 \/ CsrMatmatPass2

SpecMul == InitMul /\ [][NextMul]_vars

(* ---- the matrix product on column-major operands ---- *)
\* A is n_row x n_mid and B is n_mid x n_col, both stored by columns
InitCsc ==
    /\ setup = "csc_product"
    /\ work = NoWork
    /\ op = "none"
    /\ status = "none"
    /\ n_row \in Dims /\ n_mid \in Dims /\ n_col \in Dims
    /\ A \in Compressed(n_mid, n_row, MaxNnz, Values)
    /\ B \in Compressed(n_col, n_mid, MaxNnz, Values)
    /\ C = NoMatrix
    /\ D = NoMatrix

Cscmucsc ==
    /\ setup = "csc_product" /\ op = "none"
    /\ op' = "cscmucsc"
    /\ status' = "returned"
    /\ C' = cscmucsc(n_row, n_col, A, B)
    /\ UNCHANGED <<work, setup, n_row, n_mid, n_col, A, B, D>>

CscMatmatPass1 ==
    /\ setup = "csc_product" /\ op = "none"
    /\ op' = "csc_matmat_pass1"
    /\ status' = "returned"
    /\ LET Cp == csc_matmat_pass1(n_row, n_col, A, B)
       IN  D' = [Prealloc(0, At(Cp, n_col)) EXCEPT !.p = Cp]
    /\ UNCHANGED <<work, setup, n_row, n_mid, n_col, A, B, C>>

CscMatmatPass2 ==
    /\ setup = "csc_product" /\ op = "csc_matmat_pass1"
    /\ op' = "csc_matmat_pass2"
    /\ status' = "returned"
    /\ C' = csc_matmat_pass2(n_row, n_col, A, B, D)
    /\ UNCHANGED <<work, setup, n_row, n_mid, n_col, A, B, D>>

NextCsc == Cscmucsc \/ CscMatmatPass1 \/ CscMatmatPass2

SpecCsc == InitCsc /\ [][NextCsc]_vars

(* ---- the elementwise operations on two operands of one shape ---- *)
InitBin ==
    /\ setup = "csr_pair"
    /\ work = NoWork
    /\ op = "none"
    /\ status = "none"
    /\ n_row \in Dims /\ n_mid = 0 /\ n_col \in Dims
    /\ A \in Compressed(n_row, n_col, MaxNnz, Values)
    /\ B \in Compressed(n_row, n_col, MaxNnz, Values)
    /\ C = NoMatrix
    /\ D = NoMatrix

CsrPlusCsr ==
    /\ setup = "csr_pair" /\ op = "none"
    /\ op' = "csr_plus_csr"
    /\ status' = "returned"
    /\ C' = csr_plus_csr(n_row, n_col, A, B)
    /\ UNCHANGED <<work, setup, n_row, n_mid, n_col, A, B, D>>

\* the same sum with the operands exchanged, B + A
CsrPlusCsrExchanged ==
    /\ setup = "csr_pair" /\ op = "csr_plus_csr"
    /\ op' = "csr_plus_csr_exchanged"
    /\ status' = "returned"
    /\ D' = csr_plus_csr(n_row, n_col, B, A)
    /\ UNCHANGED <<work, setup, n_row, n_mid, n_col, A, B, C>>

CsrMinusCsr ==
    /\ setup = "csr_pair" /\ op = "none"
    /\ op' = "csr_minus_csr"
    /\ status' = "returned"
    /\ C' = csr_minus_csr(n_row, n_col, A, B)
    /\ UNCHANGED <<work, setup, n_row, n_mid, n_col, A, B, D>>

CsrElmulCsr ==
    /\ setup = "csr_pair" /\ op = "none"
    /\ op' = "csr_elmul_csr"
    /\ status' = "returned"
    /\ C' = csr_elmul_csr(n_row, n_col, A, B)
    /\ UNCHANGED <<work, setup, n_row, n_mid, n_col, A, B, D>>

\* csr_eldiv_csr either returns its result or is stopped by a trap; work
\* keeps the functor with what a division by zero did
CsrEldivCsr ==
    /\ setup = "csr_pair" /\ op = "none"
    /\ op' = "csr_eldiv_csr"
    /\ \E divzero \in DivideByZero :
          /\ work' = [bin_op |-> Divides(divzero)]
          /\ IF binop_trapped(n_row, n_col, A, B, Divides(divzero))
             THEN status' = "crashed" /\ C' = NoMatrix
             ELSE /\ status' = "returned"
                  /\ C' = csr_eldiv_csr(n_row, n_col, A, B, divzero)
    /\ UNCHANGED <<setup, n_row, n_mid, n_col, A, B, D>>

NextBin ==
    \/ CsrPlusCsr \/ CsrPlusCsrExchanged \/ CsrMinusCsr \/ CsrElmulCsr
    \/ CsrEldivCsr

SpecBin == InitBin /\ [][NextBin]_vars

(* ---- the one-operand kernels on a row-major matrix ---- *)
InitOne ==
    /\ setup = "csr"
    /\ work = NoWork
    /\ op = "none"
    /\ status = "none"
    /\ n_row \in Dims /\ n_mid = 0 /\ n_col \in Dims
    /\ A \in Compressed(n_row, n_col, MaxNnz1, Values1)
    /\ B = NoMatrix
    /\ C = NoMatrix
    /\ D = NoMatrix

\* in place on A; D keeps the matrix the call was given
SumCsrDuplicates ==
    /\ setup = "csr" /\ op = "none"
    /\ op' = "sum_csr_duplicates"
    /\ status' = "returned"
    /\ A' = sum_csr_duplicates(n_row, n_col, A)
    /\ D' = A
    /\ UNCHANGED <<work, setup, n_row, n_mid, n_col, B, C>>

\* a second call on the result of the first
SumCsrDuplicatesAgain ==
    /\ setup = "csr" /\ op = "sum_csr_duplicates"
    /\ op' = "sum_csr_duplicates_again"
    /\ status' = "returned"
    /\ A' = sum_csr_duplicates(n_row, n_col, A)
    /\ D' = A
    /\ UNCHANGED <<work, setup, n_row, n_mid, n_col, B, C>>

CsrTocsc ==
    /\ setup = "csr" /\ op = "none"
    /\ op' = "csr_tocsc"
    /\ status' = "returned"
    /\ C' = csr_tocsc(n_row, n_col, A, Prealloc(n_col + 1, At(A.p, n_row)))
    /\ UNCHANGED <<work, setup, n_row, n_mid, n_col, A, B, D>>

\* back to row-major from the column-major C
CscTocsr ==
    /\ setup = "csr" /\ op = "csr_tocsc"
    /\ op' = "csc_tocsr"
    /\ status' = "returned"
    /\ D' = csc_tocsr(n_row, n_col, C, Prealloc(n_row + 1, At(C.p, n_col)))
    /\ UNCHANGED <<work, setup, n_row, n_mid, n_col, A, B, C>>

NextOne == SumCsrDuplicates \/ SumCsrDuplicatesAgain \/ CsrTocsc \/ CscTocsr

SpecOne == InitOne /\ [][NextOne]_vars

(* ---- coordinate input ---- *)
Coordinate(nrow, ncol, maxnnz, vals) ==
    UNION {{[i |-> i, j |-> j, x |-> x] :
               i \in [1..k -> 0..nrow - 1],
               j \in [1..k -> 0..ncol - 1],
               x \in [1..k -> vals]} : k \in 0..maxnnz}

InitCoo ==
    /\ setup = "coo"
    /\ work = NoWork
    /\ op = "none"
    /\ status = "none"
    /\ n_row \in Dims /\ n_mid = 0 /\ n_col \in Dims
    /\ A \in Coordinate(n_row, n_col, MaxNnz1, Values1)
    /\ B = NoMatrix
    /\ C = NoMatrix
    /\ D = NoMatrix

CooTocsr ==
    /\ setup = "coo" /\ op = "none"
    /\ op' = "coo_tocsr"
    /\ status' = "returned"
    /\ C' = coo_tocsr(n_row, n_col, Len(A.x), A,
                      Prealloc(n_row + 1, Len(A.x)))
    /\ UNCHANGED <<work, setup, n_row, n_mid, n_col, A, B, D>>

NextCoo == CooTocsr

SpecCoo == InitCoo /\ [][NextCoo]_vars

(* ---- calls that violate a kernel's preconditions ---- *)
\* Compressed operands that break the data model: the pointer array is
\* non-decreasing from 0 but its last value is not the number of entries,
\* or an inner index lies outside [0, inner).
Malformed(outer, inner, maxnnz, vals) ==
    UNION {{M \in {[p |-> p, j |-> j, x |-> x] :
                      p \in UNION {PtrSet(outer, e) : e \in 0..k + 1},
                      j \in [1..k -> -1..inner],
                      x \in [1..k -> vals]} :
               \/ At(M.p, outer) # k
               \/ \E jj \in 0..k - 1 : At(M.j, jj) \notin 0..inner - 1} :
           k \in 0..maxnnz}

\* Coordinate input with a row or column index outside the matrix, also
\* for a matrix without rows
MalformedCoordinate(nrow, ncol, maxnnz, vals) ==
    UNION {{M \in {[i |-> i, j |-> j, x |-> x] :
                      i \in [1..k -> -1..nrow],
                      j \in [1..k -> -1..ncol],
                      x \in [1..k -> vals]} :
               \E n \in 0..k - 1 : \/ At(M.i, n) \notin 0..nrow - 1
                                   \/ At(M.j, n) \notin 0..ncol - 1} :
           k \in 1..maxnnz}

\* lines 628-631 and 149-150: the kernel reads Aj[jj] for every jj below
\* Ap[n_row] and uses it as an index into an array of n_col elements
ReadsOutside(M, outer, inner) ==
    \/ At(M.p, outer) > Len(M.j)
    \/ \E jj \in 0..At(M.p, outer) - 1 : At(M.j, jj) \notin 0..inner - 1

\* lines 411-414: Bp[j] and Bp[j+1] are read for every column index j of A
ReadsOutsideRows(Am, nrow, Bm) ==
    \E jj \in 0..At(Am.p, nrow) - 1 : At(Am.j, jj) + 1 >= Len(Bm.p)

InitBadCsr ==
    /\ setup = "csr_malformed"
    /\ work = NoWork
    /\ op = "none"
    /\ status = "none"
    /\ n_row \in Dims /\ n_mid = 0 /\ n_col \in Dims
    /\ A \in Malformed(n_row, n_col, MaxNnz, Values)
    /\ B = NoMatrix
    /\ C = NoMatrix
    /\ D = NoMatrix

InitBadCoo ==
    /\ setup = "coo_malformed"
    /\ work = NoWork
    /\ op = "none"
    /\ status = "none"
    /\ n_row \in 0..MaxDim /\ n_mid = 0 /\ n_col \in Dims
    /\ A \in MalformedCoordinate(n_row, n_col, MaxNnz, Values)
    /\ B = NoMatrix
    /\ C = NoMatrix
    /\ D = NoMatrix

\* A is n_row x n_mid, but B does not have n_mid rows
InitBadMul ==
    /\ setup = "csr_product_mismatched"
    /\ work = NoWork
    /\ op = "none"
    /\ status = "none"
    /\ n_row \in Dims /\ n_mid \in Dims /\ n_col \in Dims
    /\ A \in Compressed(n_row, n_mid, MaxNnz, Values)
    /\ \E rows \in Dims \ {n_mid} :
          B \in Compressed(rows, n_col, MaxNnz, Values)
    /\ C = NoMatrix
    /\ D = NoMatrix

\* No kernel tests its arguments.  A call whose reads and writes all stay
\* inside the arrays runs to its end and returns its result; a call that
\* indexes outside an array has undefined behaviour, it may crash or
\* return, and leaves nothing that can be relied on.
BadSumCsrDuplicates ==
    /\ setup = "csr_malformed" /\ op = "none"
    /\ op' = "sum_csr_duplicates"
    /\ IF ReadsOutside(A, n_row, n_col)
       THEN status' \in {"returned", "crashed"} /\ A' = NoMatrix
       ELSE status' = "returned" /\ A' = sum_csr_duplicates(n_row, n_col, A)
    /\ D' = A
    /\ UNCHANGED <<work, setup, n_row, n_mid, n_col, B, C>>

BadCsrTocsc ==
    /\ setup = "csr_malformed" /\ op = "none"
    /\ op' = "csr_tocsc"
    /\ IF ReadsOutside(A, n_row, n_col)
       THEN status' \in {"returned", "crashed"} /\ C' = NoMatrix
       ELSE /\ status' = "returned"
            /\ C' = csr_tocsc(n_row, n_col, A, Prealloc(n_col + 1, Len(A.x)))
    /\ UNCHANGED <<work, setup, n_row, n_mid, n_col, A, B, D>>

\* an index outside the matrix is used at line 702 (temp[Ai[i]]) or, through
\* line 724, at line 631 (sums[j])
BadCooTocsr ==
    /\ setup = "coo_malformed" /\ op = "none"
    /\ op' = "coo_tocsr"
    /\ status' \in {"returned", "crashed"}
    /\ C' = NoMatrix
    /\ UNCHANGED <<work, setup, n_row, n_mid, n_col, A, B, D>>

BadCsrmucsr ==
    /\ setup = "csr_product_mismatched" /\ op = "none"
    /\ op' = "csrmucsr"
    /\ IF ReadsOutsideRows(A, n_row, B)
       THEN status' \in {"returned", "crashed"} /\ C' = NoMatrix
       ELSE status' = "returned" /\ C' = csrmucsr(n_row, n_col, A, B)
    /\ UNCHANGED <<work, setup, n_row, n_mid, n_col, A, B, D>>

InitBad == InitBadCsr \/ InitBadCoo \/ InitBadMul

NextBad == BadSumCsrDuplicates \/ BadCsrTocsc \/ BadCooTocsr \/ BadCsrmucsr

SpecBad == InitBad /\ [][NextBad]_vars

(* ---- every kernel, on the operands its caller prepares for it ---- *)
Init == InitMul \/ InitCsc \/ InitBin \/ InitOne \/ InitCoo

Next ==
    \/ Csrmucsr \/ CsrMatmatPass1 \/ CsrMatmatPass2
    \/ Cscmucsc \/ CscMatmatPass1 \/ CscMatmatPass2
    \/ CsrPlusCsr \/ CsrPlusCsrExchanged \/ CsrMinusCsr \/ CsrElmulCsr
    \/ CsrEldivCsr
    \/ SumCsrDuplicates \/ SumCsrDuplicatesAgain \/ CsrTocsc \/ CscTocsr
    \/ CooTocsr

Spec == Init /\ [][Next]_vars

(* ------------------ the kernels' row loops, row by row ----------------- *)
\* A call in progress: work.i is the row the loop is about to process,
\* work.st the kernel's locals there, and after the first row work.filled
\* and work.drained are the linked list as the last row's fill and drain
\* left it.
Stepped(i, r) ==
    [i |-> i + 1, st |-> r.st, filled |-> r.filled, drained |-> r.drained]

CsrMatmatPass1Begin ==
    /\ setup = "csr_product" /\ op = "none"
    /\ op' = "csr_matmat_pass1"
    /\ status' = "running"
    /\ work' = [i |-> 0, st |-> pass1_begin(n_row, n_col)]
    /\ UNCHANGED <<setup, n_row, n_mid, n_col, A, B, C, D>>

CsrMatmatPass1Row ==
    /\ op = "csr_matmat_pass1" /\ status = "running"
    /\ LET r == pass1_row(work.i, work.st, A, B)
       IN  /\ work' = Stepped(work.i, r)
           /\ IF work.i + 1 = n_row
              THEN /\ status' = "returned"
                   /\ D' = [Prealloc(0, At(r.st.p, n_row)) EXCEPT !.p = r.st.p]
              ELSE UNCHANGED <<status, D>>
    /\ UNCHANGED <<setup, op, n_row, n_mid, n_col, A, B, C>>

\* the numeric pass on the arrays sized by the symbolic pass
CsrMatmatPass2Begin ==
    /\ setup = "csr_product" /\ op = "csr_matmat_pass1"
    /\ status = "returned"
    /\ op' = "csr_matmat_pass2"
    /\ status' = "running"
    /\ work' = [i |-> 0, st |-> pass2_begin(n_row, n_col, D)]
    /\ UNCHANGED <<setup, n_row, n_mid, n_col, A, B, C, D>>

CsrMatmatPass2Row ==
    /\ op = "csr_matmat_pass2" /\ status = "running"
    /\ LET r == pass2_row(work.i, work.st, A, B)
       IN  /\ work' = Stepped(work.i, r)
           /\ IF work.i + 1 = n_row
              THEN /\ status' = "returned"
                   /\ C' = [p |-> r.st.p, j |-> r.st.j, x |-> r.st.x]
              ELSE UNCHANGED <<status, C>>
    /\ UNCHANGED <<setup, op, n_row, n_mid, n_col, A, B, D>>

CsrmucsrBegin ==
    /\ setup = "csr_product" /\ op = "none"
    /\ op' = "csrmucsr"
    /\ status' = "running"
    /\ work' = [i |-> 0, st |-> mu_begin(n_row, n_col)]
    /\ UNCHANGED <<setup, n_row, n_mid, n_col, A, B, C, D>>

CsrmucsrRow ==
    /\ op = "csrmucsr" /\ status = "running"
    /\ LET r == mu_row(work.i, work.st, A, B)
       IN  /\ work' = Stepped(work.i, r)
           /\ IF work.i + 1 = n_row
              THEN /\ status' = "returned"
                   /\ C' = [p |-> r.st.p, j |-> r.st.j, x |-> r.st.x]
              ELSE UNCHANGED <<status, C>>
    /\ UNCHANGED <<setup, op, n_row, n_mid, n_col, A, B, D>>

\* the functors of lines 559, 568, 578 and 587
BinOps ==
    {Functor("plus"), Functor("minus"), Functor("multiplies")}
        \cup {Divides(divzero) : divzero \in DivideByZero}

CsrBinopCsrBegin ==
    /\ setup = "csr_pair" /\ op = "none"
    /\ op' = "csr_binop_csr"
    /\ status' = "running"
    /\ \E bin_op \in BinOps :
          work' = [i |-> 0, st |-> binop_begin(n_row, n_col),
                   bin_op |-> bin_op]
    /\ UNCHANGED <<setup, n_row, n_mid, n_col, A, B, C, D>>

CsrBinopCsrRow ==
    /\ op = "csr_binop_csr" /\ status = "running"
    /\ LET r == binop_row(work.i, work.st, A, B, work.bin_op)
       IN  /\ work' = [i |-> IF r.st.trap THEN work.i ELSE work.i + 1,
                       st |-> r.st, filled |-> r.filled,
                       drained |-> r.drained, bin_op |-> work.bin_op]
           /\ IF r.st.trap
              THEN status' = "crashed" /\ UNCHANGED C
              ELSE IF work.i + 1 = n_row
                   THEN /\ status' = "returned"
                        /\ C' = [p |-> r.st.p, j |-> r.st.j, x |-> r.st.x]
                   ELSE UNCHANGED <<status, C>>
    /\ UNCHANGED <<setup, op, n_row, n_mid, n_col, A, B, D>>

\* in place on A; D keeps the matrix the call was given
SumCsrDuplicatesBegin ==
    /\ setup = "csr" /\ op = "none"
    /\ op' = "sum_csr_duplicates"
    /\ status' = "running"
    /\ work' = [i |-> 0, st |-> dup_begin(n_col, A)]
    /\ D' = A
    /\ UNCHANGED <<setup, n_row, n_mid, n_col, A, B, C>>

SumCsrDuplicatesRow ==
    /\ op = "sum_csr_duplicates" /\ status = "running"
    /\ LET r == dup_row(work.i, work.st)
       IN  /\ work' = Stepped(work.i, r)
           /\ A' = [p |-> r.st.p, j |-> r.st.j, x |-> r.st.x]
           /\ status' = IF work.i + 1 = n_row THEN "returned" ELSE "running"
    /\ UNCHANGED <<setup, op, n_row, n_mid, n_col, B, C, D>>

NextRowsMul ==
    \/ CsrMatmatPass1Begin \/ CsrMatmatPass1Row
    \/ CsrMatmatPass2Begin \/ CsrMatmatPass2Row
    \/ CsrmucsrBegin \/ CsrmucsrRow

SpecRowsMul == InitMul /\ [][NextRowsMul]_vars

NextRowsBin == CsrBinopCsrBegin \/ CsrBinopCsrRow

SpecRowsBin == InitBin /\ [][NextRowsBin]_vars

NextRowsDup == SumCsrDuplicatesBegin \/ SumCsrDuplicatesRow

SpecRowsDup == InitOne /\ [][NextRowsDup]_vars

InitRows == InitMul \/ InitBin \/ InitOne

NextRows ==
    \/ CsrMatmatPass1Begin \/ CsrMatmatPass1Row
    \/ CsrMatmatPass2Begin \/ CsrMatmatPass2Row
    \/ CsrmucsrBegin \/ CsrmucsrRow
    \/ CsrBinopCsrBegin \/ CsrBinopCsrRow
    \/ SumCsrDuplicatesBegin \/ SumCsrDuplicatesRow

SpecRows == InitRows /\ [][NextRows]_vars

(* ========================= properties ================================== *)
RECURSIVE SumRange(_, _, _)
SumRange(f, lo, hi) == IF lo > hi THEN 0 ELSE f[lo] + SumRange(f, lo + 1, hi)

\* the positions of slice i of a compressed matrix
Slice(M, i) == At(M.p, i) .. At(M.p, i + 1) - 1

\* the mathematical entry (i, k) of a compressed matrix: the sum of the
\* values stored in slice i under inner index k
Entry(M, i, k) ==
    SumRange([jj \in Slice(M, i) |-> IF At(M.j, jj) = k THEN At(M.x, jj) ELSE 0],
             At(M.p, i), At(M.p, i + 1) - 1)

\* the pairs (inner index, value) stored in slice i
SlicePairs(M, i) == {<<At(M.j, jj), At(M.x, jj)>> : jj \in Slice(M, i)}

\* no inner index is stored twice in slice i
SliceDistinct(M, i) ==
    \A jj1, jj2 \in Slice(M, i) : jj1 # jj2 => At(M.j, jj1) # At(M.j, jj2)

\* p is a pointer array over `outer` slices
PointerOk(M, outer) ==
    /\ Len(M.p) = outer + 1
    /\ At(M.p, 0) = 0
    /\ \A i \in 0..outer - 1 : At(M.p, i) <= At(M.p, i + 1)

\* the vectors a kernel appended to hold exactly the stored entries
VectorsOk(M, outer) ==
    /\ PointerOk(M, outer)
    /\ Len(M.j) = At(M.p, outer)
    /\ Len(M.x) = At(M.p, outer)

\* entry (i, k) of the product of the n x m matrix with rows RowsA and the
\* matrix with rows RowsB
ProductEntry(RowsA, RowsB, m, i, k) ==
    SumRange([j \in 0..m - 1 |-> Entry(RowsA, i, j) * Entry(RowsB, j, k)],
             0, m - 1)

ExampleA == [p |-> <<0, 1, 2>>, j |-> <<0, 1>>, x |-> <<1, 2>>]
ExampleB == [p |-> <<0, 1, 2>>, j |-> <<1, 0>>, x |-> <<3, 4>>]
ExampleC == [p |-> <<0, 1, 2>>, j |-> <<1, 0>>, x |-> <<3, 8>>]

\* C1: csrmucsr returns the matrix product: C is a CSR matrix, no column is
\* stored twice in a row, and row i holds exactly the pairs (k, s) with
\* s = sum over j of A[i][j]*B[j][k] and s # 0; [[1,0],[0,2]] times
\* [[0,3],[4,0]] gives [[0,3],[8,0]] with 2 stored entries.
C1_ProductCorrect ==
    op = "csrmucsr" =>
        /\ VectorsOk(C, n_row)
        /\ \A i \in 0..n_row - 1 :
              /\ SliceDistinct(C, i)
              /\ SlicePairs(C, i) =
                    {<<k, ProductEntry(A, B, n_mid, i, k)>> :
                        k \in {c \in 0..n_col - 1 :
                                  ProductEntry(A, B, n_mid, i, c) # 0}}
        /\ csrmucsr(2, 2, ExampleA, ExampleB) = ExampleC

\* an entry of the product that is the sum of two nonzero products
C1_Witness ==
    /\ op = "csrmucsr"
    /\ \E i \in 0..n_row - 1, k \in 0..n_col - 1 :
          /\ \A j \in 0..n_mid - 1 : Entry(A, i, j) * Entry(B, j, k) # 0
          /\ n_mid = 2
          /\ <<k, ProductEntry(A, B, n_mid, i, k)>> \in SlicePairs(C, i)

\* the sum of the values the coordinate input gives for (i, k)
CooEntry(M, i, k) ==
    SumRange([n \in 0..Len(M.x) - 1 |->
                 IF At(M.i, n) = i /\ At(M.j, n) = k THEN At(M.x, n) ELSE 0],
             0, Len(M.x) - 1)

\* C2: coo_tocsr stores each (row, column) at most once, with the sum of the
\* input values given for it; a pair is absent exactly when it does not
\* occur in the input or its sum is zero.
C2_CooSummed ==
    op = "coo_tocsr" =>
        /\ PointerOk(C, n_row)
        /\ \A i \in 0..n_row - 1 :
              /\ SliceDistinct(C, i)
              /\ SlicePairs(C, i) =
                    {<<k, CooEntry(A, i, k)>> :
                        k \in {c \in 0..n_col - 1 : CooEntry(A, i, c) # 0}}

\* an input out of row order in which a pair is given twice
C2_Witness ==
    /\ op = "coo_tocsr"
    /\ \E m, n \in 0..Len(A.x) - 1 :
          /\ m < n
          /\ At(A.i, m) = At(A.i, n) /\ At(A.j, m) = At(A.j, n)
          /\ <<At(A.j, m), At(A.x, m) + At(A.x, n)>>
                \in SlicePairs(C, At(A.i, m))
    /\ \E m, n \in 0..Len(A.x) - 1 : m < n /\ At(A.i, m) > At(A.i, n)

\* the values stored below pointer[outer] are nonzero
LiveNonzero(M, outer) ==
    \A jj \in 0..At(M.p, outer) - 1 : At(M.x, jj) # 0

\* C3: after csrmucsr, csr_matmat_pass2, csr_binop_csr (plus, minus,
\* multiplies) and sum_csr_duplicates no value stored in the live part of
\* the output is zero.
C3_NoStoredZero ==
    /\ op \in {"csrmucsr", "csr_matmat_pass2", "csr_plus_csr",
               "csr_minus_csr", "csr_elmul_csr"} => LiveNonzero(C, n_row)
    /\ op = "csr_plus_csr_exchanged" => LiveNonzero(D, n_row)
    /\ op \in {"sum_csr_duplicates", "sum_csr_duplicates_again"}
          => LiveNonzero(A, n_row)

\* duplicates of the matrix D given to sum_csr_duplicates cancelled, and
\* other entries are left in the result
C3_Witness ==
    /\ op = "sum_csr_duplicates"
    /\ At(A.p, n_row) > 0
    /\ \E i \in 0..n_row - 1 :
          \E jj \in Slice(D, i) : Entry(D, i, At(D.j, jj)) = 0

\* the inner indices of every slice increase strictly
SortedStrict(M, outer) ==
    \A i \in 0..outer - 1 :
        \A jj \in Slice(M, i) :
            jj + 1 \in Slice(M, i) => At(M.j, jj) < At(M.j, jj + 1)

\* C4: the output of coo_tocsr, and of sum_csr_duplicates, has its column
\* indices in strictly increasing order within every row.
C4_SortedOutput ==
    /\ op = "coo_tocsr" => SortedStrict(C, n_row)
    /\ op \in {"sum_csr_duplicates", "sum_csr_duplicates_again"}
          => SortedStrict(A, n_row)

\* the inner indices of every slice do not decrease
SortedWeak(M, outer) ==
    \A i \in 0..outer - 1 :
        \A jj \in Slice(M, i) :
            jj + 1 \in Slice(M, i) => At(M.j, jj) <= At(M.j, jj + 1)

NoDuplicates(M, outer) == \A i \in 0..outer - 1 : SliceDistinct(M, i)

\* C5: csr_tocsc gives a column pointer with Bp[0] = 0, non-decreasing and
\* Bp[n_col] = Ap[n_row], and row indices that do not decrease within a
\* column, and increase strictly when A has no duplicate entries.
C5_TocscSorted ==
    op = "csr_tocsc" =>
        /\ PointerOk(C, n_col)
        /\ At(C.p, n_col) = At(A.p, n_row)
        /\ SortedWeak(C, n_col)
        /\ NoDuplicates(A, n_row) => SortedStrict(C, n_col)

\* a row of A stored out of column order, and a column with two entries
C5_Witness ==
    /\ op = "csr_tocsc"
    /\ ~SortedWeak(A, n_row)
    /\ NoDuplicates(A, n_row)
    /\ \E c \in 0..n_col - 1 : At(C.p, c + 1) - At(C.p, c) >= 2

\* the pointer array and the first pointer[outer] indices and values
Live(M, outer) ==
    [p |-> M.p,
     j |-> SubSeq(M.j, 1, At(M.p, outer)),
     x |-> SubSeq(M.x, 1, At(M.p, outer))]

\* C6: a second sum_csr_duplicates leaves Ap and the live parts of Aj and
\* Ax identical, position by position, to the result of the first.
C6_Idempotent ==
    op = "sum_csr_duplicates_again" => Live(A, n_row) = Live(D, n_row)

\* how often the pair pr is stored in slice i
PairCount(M, i, pr) ==
    Cardinality({jj \in Slice(M, i) : <<At(M.j, jj), At(M.x, jj)>> = pr})

\* C7: csr_tocsc followed by csc_tocsr gives the row pointer of A and, in
\* every row, the multiset of (column, value) entries of A's row.
C7_RoundTrip ==
    op = "csc_tocsr" =>
        /\ D.p = A.p
        /\ Len(D.j) = Len(A.j) /\ Len(D.x) = Len(A.x)
        /\ \A i \in 0..n_row - 1 :
              \A pr \in SlicePairs(A, i) \cup SlicePairs(D, i) :
                  PairCount(D, i, pr) = PairCount(A, i, pr)

\* the round trip reordered a row that stores an entry twice
C7_Witness ==
    /\ op = "csc_tocsr"
    /\ D # A
    /\ \E i \in 0..n_row - 1 :
          \E pr \in SlicePairs(A, i) : PairCount(A, i, pr) = 2

\* the (slice, inner index, value) triples stored in a compressed matrix
Triples(M, outer) ==
    UNION {{<<i, At(M.j, jj), At(M.x, jj)>> : jj \in Slice(M, i)} :
              i \in 0..outer - 1}

\* C8: csr_plus_csr(A, B) and csr_plus_csr(B, A) give the same row pointer
\* and the same set of (row, column, value) triples.
C8_PlusCommutes ==
    op = "csr_plus_csr_exchanged" =>
        /\ C.p = D.p
        /\ Triples(C, n_row) = Triples(D, n_row)

\* the two sums store a row in different orders
C8_Witness ==
    /\ op = "csr_plus_csr_exchanged"
    /\ C.j # D.j
    /\ \E i \in 0..n_row - 1, k \in 0..n_col - 1 :
          Entry(A, i, k) # 0 /\ Entry(B, i, k) # 0
              /\ Entry(A, i, k) + Entry(B, i, k) # 0

\* C9: a call that violates a precondition is signalled at once; the kernel
\* reads and writes no array and produces no result.
C9_FailFast ==
    (setup \in {"csr_malformed", "coo_malformed", "csr_product_mismatched"}
        /\ op # "none")
    => /\ status = "signalled"
       /\ C = NoMatrix
       /\ op = "sum_csr_duplicates" => A = D

\* the mirror image of a set of triples: slice and inner index exchanged
Mirror(T) == {<<t[2], t[1], t[3]>> : t \in T}

\* the row-major forms of the column-major operands A and B
CsrFormA == csc_tocsr(n_row, n_mid, A, Prealloc(n_row + 1, Len(A.x)))
CsrFormB == csc_tocsr(n_mid, n_col, B, Prealloc(n_mid + 1, Len(B.x)))

\* entry (i, k) of A*B for column-major A and B
CscProductEntry(i, k) ==
    SumRange([j \in 0..n_mid - 1 |-> Entry(A, j, i) * Entry(B, k, j)],
             0, n_mid - 1)

\* the (column, row, value) triples of the nonzero entries of A*B
CscProductTriples ==
    {<<k, i, CscProductEntry(i, k)>> :
        <<k, i>> \in {q \in (0..n_col - 1) \X (0..n_row - 1) :
                         CscProductEntry(q[2], q[1]) # 0}}

\* the rows i of column k of A*B that the operands' structure can fill
CscStructure(k) ==
    {i \in 0..n_row - 1 :
        \E jj \in Slice(B, k) :
            \E ii \in Slice(A, At(B.j, jj)) : At(A.j, ii) = i}

\* C10: cscmucsc returns the column-major A*B, the same (row, column, value)
\* triples as csrmucsr on the row-major forms of A and B; csc_matmat_pass1
\* counts the structure of each column of A*B, as many entries in all as
\* csr_matmat_pass1 counts, and csc_matmat_pass2 stores the triples that
\* csr_matmat_pass2 stores.
C10_ColumnMajorProduct ==
    /\ op = "cscmucsc" =>
          /\ VectorsOk(C, n_col)
          /\ NoDuplicates(C, n_col)
          /\ Triples(C, n_col) = CscProductTriples
          /\ Triples(C, n_col) =
                Mirror(Triples(csrmucsr(n_row, n_col, CsrFormA, CsrFormB),
                               n_row))
    /\ op = "csc_matmat_pass1" =>
          /\ PointerOk(D, n_col)
          /\ \A k \in 0..n_col - 1 :
                At(D.p, k + 1) - At(D.p, k) = Cardinality(CscStructure(k))
          /\ At(D.p, n_col) =
                At(csr_matmat_pass1(n_row, n_col, CsrFormA.p, CsrFormA.j,
                                    CsrFormB.p, CsrFormB.j), n_row)
    /\ op = "csc_matmat_pass2" =>
          /\ PointerOk(C, n_col)
          /\ NoDuplicates(C, n_col)
          /\ Triples(C, n_col) = CscProductTriples
          /\ Triples(C, n_col) =
                Mirror(Triples(csr_matmat_pass2(
                                   n_row, n_col, CsrFormA, CsrFormB,
                                   Prealloc(n_row + 1, At(D.p, n_col))),
                               n_row))

\* a product that is not square, with two stored entries in one column
C10_Witness ==
    /\ op = "cscmucsc"
    /\ n_row # n_col
    /\ \E k \in 0..n_col - 1 : At(C.p, k + 1) - At(C.p, k) = 2

\* the columns touched while row i of the product of the row-major Am and
\* Bm is accumulated
Touched(Am, Bm, i) ==
    {At(Bm.j, kk) : kk \in UNION {Slice(Bm, At(Am.j, jj)) :
                                     jj \in Slice(Am, i)}}

\* the touched columns of row i whose products sum to zero
Cancelled(Am, Bm, m, i) ==
    {k \in Touched(Am, Bm, i) : ProductEntry(Am, Bm, m, i, k) = 0}

\* the number of entries of slice i
SliceLen(M, i) == At(M.p, i + 1) - At(M.p, i)

\* C12 as stated: the count of csr_matmat_pass1 for row i equals the number
\* of entries csr_matmat_pass2 stores for row i.
C12_ExactSize ==
    op = "csr_matmat_pass2" =>
        \A i \in 0..n_row - 1 : SliceLen(D, i) = SliceLen(C, i)

\* C12 (amended): csr_matmat_pass1 counts the columns touched in row i;
\* csr_matmat_pass2 and csrmucsr store that many entries less the touched
\* columns whose sum is zero, so the count is an upper bound that is exact
\* when no sum of the row cancels.
C12_UpperBoundSize ==
    /\ op \in {"csr_matmat_pass1", "csr_matmat_pass2"} =>
          \A i \in 0..n_row - 1 :
              SliceLen(D, i) = Cardinality(Touched(A, B, i))
    /\ op \in {"csr_matmat_pass2", "csrmucsr"} =>
          \A i \in 0..n_row - 1 :
              SliceLen(C, i) = Cardinality(Touched(A, B, i))
                                 - Cardinality(Cancelled(A, B, n_mid, i))

\* both passes ran on a product of two rows, and a touched column of some
\* row cancelled, so that row stores fewer entries than were counted
C12_Witness ==
    /\ op = "csr_matmat_pass2"
    /\ n_row = 2
    /\ \E i \in 0..n_row - 1 :
          /\ Cancelled(A, B, n_mid, i) # {}
          /\ SliceLen(C, i) < SliceLen(D, i)

\* a sequence in reverse
Reverse(s) == [n \in 1..Len(s) |-> s[Len(s) + 1 - n]]

\* a sequence without the later occurrences of its elements
RECURSIVE FirstOccurrences(_)
FirstOccurrences(s) ==
    IF s = <<>>
    THEN <<>>
    ELSE LET r == FirstOccurrences(SubSeq(s, 1, Len(s) - 1))
         IN  IF \E n \in 1..Len(r) : r[n] = s[Len(s)]
             THEN r
             ELSE Append(r, s[Len(s)])

\* the inner indices of slice i, in stored order
SliceCols(M, i) == [n \in 1..SliceLen(M, i) |-> At(M.j, At(M.p, i) + n - 1)]

\* the columns a product touches for row i, in order: for each entry of
\* row i of Am, from position jj on, the columns of its row of Bm
RECURSIVE ProductTouches(_, _, _, _)
ProductTouches(Am, Bm, jj, jj_end) ==
    IF jj < jj_end
    THEN SliceCols(Bm, At(Am.j, jj)) \o ProductTouches(Am, Bm, jj + 1, jj_end)
    ELSE <<>>

\* the columns in reverse order of first touch, without those where the
\* result is zero
ReverseFirstTouch(touches, Result(_)) ==
    LET Kept(k) == Result(k) # 0
    IN  SelectSeq(Reverse(FirstOccurrences(touches)), Kept)

\* the result of the combination at (i, k), from the operands' entries
Combined(name, i, k) ==
    CASE name = "csr_plus_csr"  -> Entry(A, i, k) + Entry(B, i, k)
      [] name = "csr_minus_csr" -> Entry(A, i, k) - Entry(B, i, k)
      [] name = "csr_elmul_csr" -> Entry(A, i, k) * Entry(B, i, k)

\* C14: csrmucsr and csr_binop_csr store the entries of each output row in
\* reverse order of the first touch of their columns (for a product the
\* columns of B's rows as A's row is walked, for a combination A's row then
\* B's row), with the columns of zero results left out and the order of
\* the others unchanged; the columns are not sorted.
C14_ReverseTouchOrder ==
    /\ op = "csrmucsr" =>
          \A i \in 0..n_row - 1 :
              LET Result(k) == ProductEntry(A, B, n_mid, i, k)
              IN  SliceCols(C, i) =
                      ReverseFirstTouch(ProductTouches(A, B, At(A.p, i),
                                                       At(A.p, i + 1)),
                                        Result)
    /\ op \in {"csr_plus_csr", "csr_minus_csr", "csr_elmul_csr"} =>
          \A i \in 0..n_row - 1 :
              LET Result(k) == Combined(op, i, k)
              IN  SliceCols(C, i) =
                      ReverseFirstTouch(SliceCols(A, i) \o SliceCols(B, i),
                                        Result)

\* a combination returned a row whose columns decrease, the first one
\* touched in B's row only
C14_Witness ==
    /\ op \in {"csr_plus_csr", "csr_minus_csr", "csr_elmul_csr"}
    /\ \E i \in 0..n_row - 1 :
          /\ SliceLen(C, i) = 2
          /\ At(C.j, At(C.p, i)) > At(C.j, At(C.p, i) + 1)
          /\ Entry(A, i, At(C.j, At(C.p, i))) = 0

\* the columns stored in row i of M
StoredCols(M, i) == {At(M.j, jj) : jj \in Slice(M, i)}

\* the columns stored in row i of A or of B
UnionCols(i) == StoredCols(A, i) \cup StoredCols(B, i)

Abs(a) == IF a < 0 THEN -a ELSE a

\* the quotient of a by b # 0 in T: the q with a = q * b + r where r is
\* smaller than b in magnitude and is zero or has the sign of a
Quotient(a, b) ==
    CHOOSE q \in -Abs(a)..Abs(a) :
        LET r == a - q * b
        IN  /\ Abs(r) < Abs(b)
            /\ r = 0 \/ (r < 0) = (a < 0)

\* the value op(a_k, b_k) for the kernel called, a_k and b_k the sums of
\* the entries stored at (i, k), zero where none is stored; for a zero
\* divisor the value the build yields
OpValue(name, i, k) ==
    LET a == Entry(A, i, k)
        b == Entry(B, i, k)
    IN  CASE name = "csr_plus_csr"  -> a + b
          [] name = "csr_minus_csr" -> a - b
          [] name = "csr_elmul_csr" -> a * b
          [] name = "csr_eldiv_csr" -> IF b = 0
                                       THEN work.bin_op.divzero.value
                                       ELSE Quotient(a, b)

\* some column of some row of A or B has the divisor zero
ZeroDivisor ==
    \E i \in 0..n_row - 1 : \E k \in UnionCols(i) : Entry(B, i, k) = 0

\* C15: for plus, minus, multiplies and divides csr_binop_csr stores in row
\* i exactly the pairs (k, op(a_k, b_k)) with a nonzero result over the
\* columns k stored in row i of A or B, each column once, a_k and b_k summed
\* over the stored entries and 0 when absent. A column whose divisor is
\* zero is not skipped under divides: a_k / 0 is evaluated, so the call is
\* stopped where that traps and stores the value it yields where it does not.
C15_BinopExact ==
    /\ op \in {"csr_plus_csr", "csr_minus_csr", "csr_elmul_csr",
               "csr_eldiv_csr"} /\ status = "returned" =>
          /\ VectorsOk(C, n_row)
          /\ \A i \in 0..n_row - 1 :
                /\ SliceDistinct(C, i)
                /\ SlicePairs(C, i) =
                       {<<k, OpValue(op, i, k)>> :
                           k \in {c \in UnionCols(i) : OpValue(op, i, c) # 0}}
    /\ op = "csr_eldiv_csr" =>
          (status = "crashed") = (ZeroDivisor /\ work.bin_op.divzero.trap)
    /\ op \in {"csr_plus_csr", "csr_minus_csr", "csr_elmul_csr"} =>
          status = "returned"

\* csr_eldiv_csr returned although a column of A's row is absent from B's
\* row, and stored for it the value the division by zero yielded
C15_Witness ==
    /\ op = "csr_eldiv_csr" /\ status = "returned"
    /\ \E i \in 0..n_row - 1 :
          \E k \in StoredCols(A, i) \ StoredCols(B, i) :
              /\ work.bin_op.divzero.value # 0
              /\ <<k, work.bin_op.divzero.value>> \in SlicePairs(C, i)

\* the kernels built on the linked list, as named while followed row by row
ListKernels ==
    {"csr_matmat_pass1", "csr_matmat_pass2", "csrmucsr", "csr_binop_csr",
     "sum_csr_duplicates"}

\* a call of such a kernel is at the start of a row iteration or has returned
AtRowBoundary ==
    op \in ListKernels /\ work # NoWork /\ status \in {"running", "returned"}

\* every entry of the array is v
AllAre(s, v) == \A n \in 1..Len(s) : s[n] = v

\* the value arrays of the kernel's locals are all zero
ValuesClear(name, st) ==
    CASE name = "csr_matmat_pass1" -> TRUE
      [] name = "csr_binop_csr"    -> AllAre(st.A_row, 0) /\ AllAre(st.B_row, 0)
      [] OTHER                     -> AllAre(st.sums, 0)

\* the columns reached from head along next, at most fuel of them
RECURSIVE Walk(_, _, _)
Walk(next, head, fuel) ==
    IF head < 0 \/ fuel = 0
    THEN <<>>
    ELSE <<head>> \o Walk(next, At(next, head), fuel - 1)

\* the link that ends the walk from head
WalkEnd(next, head, fuel) ==
    LET w == Walk(next, head, fuel)
    IN  IF w = <<>> THEN head ELSE At(next, w[Len(w)])

\* the columns the kernel touches in row i, from its operands; for
\* sum_csr_duplicates D is the matrix the call was given
TouchedBy(name, i) ==
    CASE name = "csr_binop_csr"      -> UnionCols(i)
      [] name = "sum_csr_duplicates" -> StoredCols(D, i)
      [] OTHER                       -> Touched(A, B, i)

\* C11: in csr_matmat_pass1, csr_matmat_pass2, csrmucsr, csr_binop_csr and
\* sum_csr_duplicates, at the start of every row iteration and when the call
\* returns every entry of next is -1 and every entry of sums, A_row and
\* B_row is 0; the list the drain of a row walks holds exactly the columns
\* touched in that row, each once, ends with -2, has the length the kernel
\* counted, and the drain leaves the list empty.
C11_ListInvariant ==
    AtRowBoundary =>
        /\ work.i \in 0..n_row
        /\ (status = "returned") = (work.i = n_row)
        /\ Len(work.st.next) = n_col
        /\ AllAre(work.st.next, -1)
        /\ ValuesClear(op, work.st)
        /\ work.i > 0 =>
              LET f == work.filled
                  w == Walk(f.next, f.head, n_col + 1)
                  T == TouchedBy(op, work.i - 1)
              IN  /\ Len(w) = Cardinality(T)
                  /\ {w[n] : n \in 1..Len(w)} = T
                  /\ WalkEnd(f.next, f.head, n_col + 1) = -2
                  /\ op # "sum_csr_duplicates" => f.length = Len(w)
                  /\ work.drained.head = -2

\* a kernel is past a row in which it touched two columns and has another
\* row to go
C11_Witness ==
    /\ AtRowBoundary /\ status = "running"
    /\ work.i > 0
    /\ Cardinality(TouchedBy(op, work.i - 1)) = 2
    /\ Len(Walk(work.filled.next, work.filled.head, n_col + 1)) = 2

\* C13: sum_csr_duplicates, given a well-formed matrix D with Ap[0] = 0,
\* compacts in place without overwriting unread data: at the start of each
\* row i the write cursor nnz is at most the original Ap[i], so every write
\* of the row before went below it; the entries from the original Ap[i] on
\* and the pointers after Ap[i] are still the original ones; and each row
\* was read between its original bounds although Ap[i] had been overwritten.
C13_CompactionSafe ==
    op = "sum_csr_duplicates" /\ status \in {"running", "returned"} =>
        LET i  == work.i
            st == work.st
        IN  /\ A = [p |-> st.p, j |-> st.j, x |-> st.x]
            /\ st.nnz <= At(D.p, i)
            /\ i > 0 => /\ At(st.p, i) = st.nnz
                        /\ st.row_start = At(D.p, i - 1)
                        /\ st.row_end = At(D.p, i)
            /\ \A k \in i + 1..n_row : At(st.p, k) = At(D.p, k)
            /\ \A jj \in At(D.p, i)..At(D.p, n_row) - 1 :
                  At(st.j, jj) = At(D.j, jj) /\ At(st.x, jj) = At(D.x, jj)

\* the call is about to read a row that is not empty, and Ap of that row
\* has been overwritten with a smaller value
C13_Witness ==
    /\ op = "sum_csr_duplicates" /\ status = "running"
    /\ work.i > 0
    /\ At(A.p, work.i) < At(D.p, work.i)
    /\ At(D.p, work.i) < At(D.p, work.i + 1)

\* C16: csr_matmat_pass2, run on the operands of csr_matmat_pass1 and on
\* arrays of the size it computed (D), never writes past that size: at the
\* start of row i and at return the cursor nnz is at most pass1's Cp[i],
\* which is at most Cp[n_row], so every write to Cj[nnz] and Cx[nnz] went
\* strictly below it, and every pointer pass2 has written is at most the
\* one pass1 computed.
C16_WithinSymbolicSize ==
    op = "csr_matmat_pass2" /\ status \in {"running", "returned"} =>
        LET i  == work.i
            st == work.st
        IN  /\ Len(st.j) = At(D.p, n_row) /\ Len(st.x) = At(D.p, n_row)
            /\ st.nnz <= At(D.p, i)
            /\ At(D.p, i) <= At(D.p, n_row)
            /\ \A k \in 0..i : At(st.p, k) <= At(D.p, k)
            /\ status = "returned" =>
                  C = [p |-> st.p, j |-> st.j, x |-> st.x]

\* the numeric pass has filled the rows so far up to the size the symbolic
\* pass computed for them, and has another row to go
C16_Witness ==
    /\ op = "csr_matmat_pass2" /\ status = "running"
    /\ work.i > 0
    /\ work.st.nnz > 0
    /\ work.st.nnz = At(D.p, work.i)

====
